---- MODULE Spec2Model ----
(***************************************************************************)
(* Monitoring server for lab PCs (monitoring_system/server.py).            *)
(*                                                                         *)
(* The model follows the server thread by thread: one handler thread per   *)
(* accepted TCP connection (_handle_client), one thread per HTTP request   *)
(* for /api/clients (do_GET -> MonitoringRegistry.snapshot), all sharing   *)
(* one MonitoringRegistry guarded by one lock.                             *)
(*                                                                         *)
(* Text is modelled at the level of lexemes: a byte string is a sequence   *)
(* of lexemes, "\n" is the line separator, " " is whitespace, "{" "}" "["  *)
(* "]" are JSON punctuation, a key lexeme stands for a quoted key with its *)
(* colon, and a scalar lexeme for a JSON scalar.  Commas are elided.       *)
(***************************************************************************)
EXTENDS Integers, Sequences, FiniteSets, TLC

(***************************************************************************)
(* Bounds of the model.                                                    *)
(***************************************************************************)
\* Largest reading of the monotonic clock.
MaxTime == 2
\* Largest number of lines a peer script of the registry scenario holds.
MaxLines == 2
\* Largest number of recv chunks a stream of the framing scenario is cut in.
MaxChunks == 3
\* Largest number of lines of a registry scenario run that the operator
\* interrupts.
MaxStopLines == 1

(***************************************************************************)
(* Configuration and identities.                                           *)
(***************************************************************************)
\* MonitoringRegistry.offline_after_seconds, a constructor argument (30 by
\* default): the threshold the model runs with.
offline_after_seconds == 1

Conns == {"c1", "c2"}
Https == {"h1"}
NoThread == "none"

\* The (ip_address, port) pair accept() returns for a connection.
address(c) ==
    IF c = "c1" THEN [ip |-> "10.0.0.5", port |-> 50001]
                ELSE [ip |-> "10.0.0.6", port |-> 50002]

(***************************************************************************)
(* JSON values as Python sees them after json.loads.                       *)
(***************************************************************************)
None == [t |-> "null", v |-> ""]
Missing == [t |-> "missing", v |-> ""]
Str(s) == [t |-> "str", v |-> s]
Num(s) == [t |-> "num", v |-> s]

\* Python truthiness, as used by `x or y`.
Truthy(v) ==
    \/ v.t = "str" /\ v.v # ""
    \/ v.t = "num" /\ v.v # "0"

\* x or y
Or(x, y) == IF Truthy(x) THEN x ELSE y

\* str(x)
py_str(v) == IF v.t = "null" THEN "None" ELSE v.v

Keys ==
    {"client_id", "pc_name", "status", "current_user", "session_type",
     "gpu_usage_percent", "gpu_memory_used_mb", "gpu_name", "timestamp"}

NumLex == {"7", "55"}
StrLex ==
    {"a", "b", "LAB", "lab", "busy", "idle", "offline", "u", "v", "s",
     "g", "h", "t1"}
\* The strings of decoded non-ASCII text: the two-byte character, U+FFFD,
\* and two U+FFFD in a row.
CharStrings == {"e-acute", "U+FFFD", "U+FFFDU+FFFD"}
\* "''" is the empty string literal.
ScalarLex == StrLex \cup NumLex \cup CharStrings \cup {"null", "''"}

NL == "\n"
SP == " "

\* The Python value of a scalar lexeme.
Value(lex) ==
    IF lex = "null" THEN None
    ELSE IF lex \in NumLex THEN Num(lex)
    ELSE IF lex = "''" THEN Str("")
    ELSE Str(lex)

\* The empty dict {}.
EmptyObject == [k \in Keys |-> Missing]

\* dict.get(key): None for a missing key.
get(message, key) == IF message[key].t = "missing" THEN None ELSE message[key]

(***************************************************************************)
(* Text: decoding, line splitting, stripping, JSON parsing.                *)
(***************************************************************************)
\* The two bytes of a two-byte UTF-8 character, the character, and U+FFFD.
LeadByte == "xC3"
ContByte == "xA9"
TwoByteChar == "e-acute"
Replacement == "U+FFFD"

\* bytes.decode("utf-8", errors="replace") of one recv chunk.
RECURSIVE decode(_)
decode(chunk) ==
    IF chunk = <<>> THEN <<>>
    ELSE IF Head(chunk) = LeadByte /\ Len(chunk) >= 2 /\ chunk[2] = ContByte
        THEN <<TwoByteChar>> \o decode(Tail(Tail(chunk)))
    ELSE IF Head(chunk) \in {LeadByte, ContByte}
        THEN <<Replacement>> \o decode(Tail(chunk))
    ELSE <<Head(chunk)>> \o decode(Tail(chunk))

\* "\n" in buffer
has_newline(buffer) == \E i \in 1..Len(buffer) : buffer[i] = NL

\* buffer.split("\n", 1), for a buffer that holds a newline.
split_line(buffer) ==
    LET i == CHOOSE j \in 1..Len(buffer) :
                 buffer[j] = NL /\ \A k \in 1..(j - 1) : buffer[k] # NL
    IN  [raw_line |-> SubSeq(buffer, 1, i - 1),
         rest |-> SubSeq(buffer, i + 1, Len(buffer))]

\* The inner loop's test and split, taking a buffer without a newline for
\* a line of its own.
next_line_eager(buffer) ==
    IF has_newline(buffer)
    THEN [found |-> TRUE, raw_line |-> split_line(buffer).raw_line,
          rest |-> split_line(buffer).rest]
    ELSE [found |-> buffer # <<>>, raw_line |-> buffer, rest |-> <<>>]

\* while "\n" in buffer: raw_line, buffer = buffer.split("\n", 1)
next_line(buffer) ==
    IF has_newline(buffer)
    THEN [found |-> TRUE, raw_line |-> split_line(buffer).raw_line,
          rest |-> split_line(buffer).rest]
    ELSE [found |-> FALSE, raw_line |-> <<>>, rest |-> buffer]

\* Leaving the handler on a JSONDecodeError.
after_decode_error_break == "closed"

\* except json.JSONDecodeError: ... continue -- the inner loop goes on.
after_decode_error == "split"

\* str.strip()
RECURSIVE lstrip(_)
lstrip(s) == IF s # <<>> /\ Head(s) = SP THEN lstrip(Tail(s)) ELSE s
RECURSIVE rstrip(_)
rstrip(s) ==
    IF s # <<>> /\ s[Len(s)] = SP THEN rstrip(SubSeq(s, 1, Len(s) - 1)) ELSE s
strip(s) == rstrip(lstrip(s))

\* Characters in a row inside a JSON string make one string.
RECURSIVE join_chars(_)
join_chars(toks) ==
    IF Len(toks) <= 1 THEN toks
    ELSE LET r == join_chars(Tail(toks))
         IN  IF Head(toks) \in {TwoByteChar, Replacement}
                /\ Head(r) \in CharStrings
             THEN <<Head(toks) \o Head(r)>> \o Tail(r)
             ELSE <<Head(toks)>> \o r

\* The dict of a sequence of key, scalar pairs; a repeated key keeps its
\* last value.
RECURSIVE object_of(_)
object_of(pairs) ==
    IF pairs = <<>> THEN EmptyObject
    ELSE LET n == Len(pairs)
         IN  [object_of(SubSeq(pairs, 1, n - 2)) EXCEPT
                 ![pairs[n - 1]] = Value(pairs[n])]

is_pairs(toks) ==
    /\ Len(toks) % 2 = 0
    /\ \A i \in 1..Len(toks) :
          IF i % 2 = 1 THEN toks[i] \in Keys ELSE toks[i] \in ScalarLex

\* json.loads(line): kind "object" for a dict, "other" for any other JSON
\* value (list, string, number, null), "error" for json.JSONDecodeError.
json_loads(line) ==
    LET toks == join_chars(SelectSeq(line, LAMBDA x : x # SP))
        n == Len(toks)
    IN  IF n >= 2 /\ toks[1] = "{" /\ toks[n] = "}"
           /\ is_pairs(SubSeq(toks, 2, n - 1))
        THEN [kind |-> "object", obj |-> object_of(SubSeq(toks, 2, n - 1))]
        ELSE IF \/ n = 1 /\ toks[1] \in ScalarLex
                \/ /\ n >= 2 /\ toks[1] = "[" /\ toks[n] = "]"
                   /\ \A i \in 2..(n - 1) : toks[i] \in ScalarLex
        THEN [kind |-> "other", obj |-> EmptyObject]
        ELSE [kind |-> "error", obj |-> EmptyObject]

(***************************************************************************)
(* ClientState.                                                            *)
(***************************************************************************)
\* utc_now_iso(): the wall clock is taken to follow the monotonic clock.
utc_now_iso(t) == Str("utc" \o ToString(t))

\* The dataclass constructor as upsert calls it: the four given fields and
\* the defaults of the others; t is the clock reading of the factories.
ClientState(client_id, pc_name, ip_address, port, t) ==
    [client_id |-> client_id,
     pc_name |-> Str(pc_name),
     ip_address |-> ip_address,
     port |-> port,
     status |-> Str("offline"),
     current_user |-> None,
     session_type |-> None,
     gpu_usage_percent |-> None,
     gpu_memory_used_mb |-> None,
     gpu_name |-> None,
     last_reported_at |-> utc_now_iso(t),
     last_seen_monotonic |-> t]

\* apply_snapshot's first part with current_user merged instead of replaced.
apply_snapshot_head_merge(self, message, ip_address, port) ==
    [self EXCEPT
        !.pc_name = Or(get(message, "pc_name"), self.pc_name),
        !.ip_address = ip_address,
        !.port = port,
        !.status = Or(get(message, "status"), Str("online")),
        !.current_user = Or(get(message, "current_user"), self.current_user),
        !.session_type = get(message, "session_type")]

\* apply_snapshot, its first six assignments.
apply_snapshot_head(self, message, ip_address, port) ==
    [self EXCEPT
        !.pc_name = Or(get(message, "pc_name"), self.pc_name),
        !.ip_address = ip_address,
        !.port = port,
        !.status = Or(get(message, "status"), Str("online")),
        !.current_user = get(message, "current_user"),
        !.session_type = get(message, "session_type")]

\* The last five assignments with last_seen_monotonic taken from the message
\* when it carries a timestamp (read as the clock's origin).
apply_snapshot_tail_client_time(self, message, t) ==
    [self EXCEPT
        !.gpu_usage_percent = get(message, "gpu_usage_percent"),
        !.gpu_memory_used_mb = get(message, "gpu_memory_used_mb"),
        !.gpu_name = get(message, "gpu_name"),
        !.last_reported_at = Or(get(message, "timestamp"), utc_now_iso(t)),
        !.last_seen_monotonic =
            IF Truthy(get(message, "timestamp")) THEN 0 ELSE t]

\* apply_snapshot, its last five assignments; t is the clock reading.
apply_snapshot_tail(self, message, t) ==
    [self EXCEPT
        !.gpu_usage_percent = get(message, "gpu_usage_percent"),
        !.gpu_memory_used_mb = get(message, "gpu_memory_used_mb"),
        !.gpu_name = get(message, "gpu_name"),
        !.last_reported_at = Or(get(message, "timestamp"), utc_now_iso(t)),
        !.last_seen_monotonic = t]

\* The comparison of to_payload with the boundary excluded.
is_fresh_strict(elapsed, offline_after) == elapsed < offline_after

\* The comparison of to_payload.
is_fresh(elapsed, offline_after) == elapsed <= offline_after

\* to_payload at clock reading t.
to_payload(self, offline_after, t) ==
    LET elapsed == t - self.last_seen_monotonic
        computed_status ==
            IF is_fresh(elapsed, offline_after) THEN self.status
                                                ELSE Str("offline")
    IN  [client_id |-> self.client_id,
         pc_name |-> self.pc_name,
         ip_address |-> self.ip_address,
         port |-> self.port,
         status |-> computed_status,
         current_user |-> self.current_user,
         session_type |-> self.session_type,
         gpu_usage_percent |-> self.gpu_usage_percent,
         gpu_memory_used_mb |-> self.gpu_memory_used_mb,
         gpu_name |-> self.gpu_name,
         last_reported_at |-> self.last_reported_at,
         seconds_since_last_seen |-> elapsed]

(***************************************************************************)
(* MonitoringRegistry._clients: a dict, kept as the sequence of its values *)
(* in insertion order.                                                     *)
(***************************************************************************)
dict_keys(d) == {d[i].client_id : i \in 1..Len(d)}

\* The position of key k, 0 when absent (dict.get returning None).
dict_get(d, k) ==
    IF k \in dict_keys(d)
    THEN CHOOSE i \in 1..Len(d) : d[i].client_id = k
    ELSE 0

\* Rebinding the dict to one that holds the new client only.
dict_insert_clobber(d, client) == <<client>>

\* Inserting with the oldest entry evicted.
dict_insert_evict(d, client) ==
    IF d = <<>> THEN <<client>> ELSE Append(Tail(d), client)

\* d[k] = client for a key that is absent.
dict_insert(d, client) == Append(d, client)

\* The identity without the pc_name fallback.
upsert_client_id_no_name(message, ip_address) ==
    py_str(Or(get(message, "client_id"), Str(ip_address)))

\* The identity derived by upsert.
upsert_client_id(message, ip_address) ==
    py_str(Or(get(message, "client_id"),
              Or(get(message, "pc_name"), Str(ip_address))))

upsert_pc_name(message, client_id) ==
    py_str(Or(get(message, "pc_name"), Str(client_id)))

\* Readings of a clock that can be set back, such as time.time().
wall_clock(t) == 0..MaxTime

\* Readings time.monotonic() can return once it has returned t.
monotonic(t) == t..MaxTime

(***************************************************************************)
(* sorted(self._clients.values(), key=lambda item: item.pc_name.lower()).  *)
(***************************************************************************)
\* str.lower() over the names of the model.
lower(s) == IF s = "LAB" THEN "lab" ELSE s

\* The lower-cased names in Python's string order (by code point).
NameOrder ==
    <<"10.0.0.5", "10.0.0.6", "55", "7", "LAB", "a", "b", "busy", "g", "h",
      "idle", "lab", "offline", "s", "t1", "u", "v", "e-acute", "U+FFFD",
      "U+FFFDU+FFFD">>

\* The key without .lower(): the name as it is.
sort_key_cased(client) ==
    CHOOSE i \in 1..Len(NameOrder) : NameOrder[i] = client.pc_name.v

sort_key(client) ==
    CHOOSE i \in 1..Len(NameOrder) : NameOrder[i] = lower(client.pc_name.v)

\* item.pc_name.lower() raises AttributeError unless pc_name is a str.
can_sort(d) == \A i \in 1..Len(d) : d[i].pc_name.t = "str"

\* The positions of d[1..n] in sorted order; sorted() is stable.
RECURSIVE sorted_upto(_, _)
sorted_upto(d, n) ==
    IF n = 0 THEN <<>>
    ELSE LET s == sorted_upto(d, n - 1)
             before == Cardinality(
                 {j \in 1..Len(s) : sort_key(d[s[j]]) <= sort_key(d[n])})
         IN  SubSeq(s, 1, before) \o <<n>> \o SubSeq(s, before + 1, Len(s))

\* The sorted list without the value inserted last.
sorted_values_short(d) == IF d = <<>> THEN <<>> ELSE sorted_upto(d, Len(d) - 1)

sorted_values(d) == sorted_upto(d, Len(d))

(***************************************************************************)
(* State.                                                                  *)
(***************************************************************************)
VARIABLES
    running,    \* MonitoringServer._running
    listener,   \* where the thread of _run_tcp_server stands
    http_server, \* where serve_forever stands with its ThreadingHTTPServer
    interrupt,  \* whether the operator will interrupt the server (Ctrl-C)
    now,        \* the last reading of time.monotonic()
    lock,       \* MonitoringRegistry._lock: its holder, or NoThread
    clients,    \* MonitoringRegistry._clients
    net,        \* per connection: the chunks recv will return, in order
    pc,         \* per connection: where its handler thread stands
    buffer,     \* per connection: _handle_client's buffer
    message,    \* per connection: the value json.loads returned
    ident,      \* per connection: upsert's client_id and pc_name
    hpc,        \* per HTTP thread: where the request stands
    todo,       \* per HTTP thread: positions snapshot has still to project
    result,     \* per HTTP thread: the clients list snapshot is building
    rxbytes,    \* history: the bytes a connection has received
    rxtext,     \* history: the decoded text a connection has received
    calls,      \* history: the values a connection has passed to upsert
    rets,       \* history: how many upsert calls of a connection returned
    log,        \* history: the upsert calls in the order they were applied
    forced,     \* history: ids a returned snapshot forced offline, with no
                \* upsert for the id since
    seen_rets   \* history: per HTTP thread, rets when snapshot was called

vars ==
    <<running, listener, http_server, interrupt, now, lock, clients, net, pc, buffer,
      message, ident, hpc, todo, result, rxbytes, rxtext, calls, rets, log,
      forced, seen_rets>>

conn_vars == <<net, pc, buffer, message, ident, rxbytes, rxtext, calls, rets>>
http_vars == <<hpc, todo, result, seen_rets>>
srv_vars == <<running, listener, http_server, interrupt>>

NoMessage == [kind |-> "none", obj |-> EmptyObject]
NoIdent == [client_id |-> "", pc_name |-> ""]

\* A lock that excludes nobody.
can_acquire_always(l) == TRUE

\* with self._lock: the lock can be taken when nobody holds it.
can_acquire(l) == l = NoThread

(***************************************************************************)
(* _run_tcp_server / _handle_client.                                       *)
(***************************************************************************)
\* bind and listen succeed; the loop test follows.
Bind ==
    /\ listener = "starting"
    /\ listener' = (IF running THEN "accepting" ELSE "ended")
    /\ UNCHANGED <<running, http_server, interrupt, now, lock, clients, log,
                   forced>>
    /\ UNCHANGED conn_vars
    /\ UNCHANGED http_vars

\* bind or listen raises OSError: nothing catches it in the listener's
\* thread, which ends; the main thread is not told.
BindFail ==
    /\ listener = "starting"
    /\ listener' = "bind_failed"
    /\ UNCHANGED <<running, http_server, interrupt, now, lock, clients, log,
                   forced>>
    /\ UNCHANGED conn_vars
    /\ UNCHANGED http_vars

\* accept() returns connection c and its handler thread starts; the loop
\* test follows.
Accept(c) ==
    /\ listener = "accepting"
    /\ pc[c] = "pending"
    /\ listener' = (IF running THEN "accepting" ELSE "ended")
    /\ pc' = [pc EXCEPT ![c] = "recv"]
    /\ buffer' = [buffer EXCEPT ![c] = <<>>]
    /\ UNCHANGED <<running, http_server, interrupt, now, lock, clients, net,
                   message, ident, rxbytes, rxtext, calls, rets, log, forced>>
    /\ UNCHANGED http_vars

\* accept() raises OSError as connection c arrives (no descriptor left, or
\* the connection was aborted): except OSError: break.
AcceptFail(c) ==
    /\ listener = "accepting"
    /\ pc[c] = "pending"
    /\ listener' = "ended"
    /\ UNCHANGED <<running, http_server, interrupt, now, lock, clients, log,
                   forced>>
    /\ UNCHANGED conn_vars
    /\ UNCHANGED http_vars

\* One turn of the outer loop up to the inner loop: recv, the three ways
\* out of the loop, and buffer += chunk.decode(...).
Recv(c) ==
    /\ pc[c] = "recv"
    /\ IF ~running
       THEN /\ pc' = [pc EXCEPT ![c] = "closed"]
            /\ UNCHANGED <<net, buffer, rxbytes, rxtext>>
       ELSE \/ /\ net[c] # <<>>
               /\ buffer' = [buffer EXCEPT ![c] = @ \o decode(Head(net[c]))]
               /\ rxtext' = [rxtext EXCEPT ![c] = @ \o decode(Head(net[c]))]
               /\ rxbytes' = [rxbytes EXCEPT ![c] = @ \o Head(net[c])]
               /\ net' = [net EXCEPT ![c] = Tail(@)]
               /\ pc' = [pc EXCEPT ![c] = "split"]
            \* recv returns b"": the peer has sent everything and closed
            \/ /\ net[c] = <<>>
               /\ pc' = [pc EXCEPT ![c] = "closed"]
               /\ UNCHANGED <<net, buffer, rxbytes, rxtext>>
            \* ConnectionError
            \/ /\ pc' = [pc EXCEPT ![c] = "closed"]
               /\ UNCHANGED <<net, buffer, rxbytes, rxtext>>
    /\ UNCHANGED <<now, lock, clients, message, ident, calls, rets,
                   log, forced>>
    /\ UNCHANGED http_vars
    /\ UNCHANGED srv_vars

\* One turn of the inner loop: its test, the split, strip, the empty-line
\* and JSONDecodeError continues, up to the call of upsert.
SplitLine(c) ==
    /\ pc[c] = "split"
    /\ LET parts == next_line(buffer[c])
           line == strip(parts.raw_line)
           parsed == json_loads(line)
       IN  IF ~parts.found
           THEN /\ pc' = [pc EXCEPT ![c] = "recv"]
                /\ UNCHANGED <<buffer, message, calls>>
           ELSE /\ buffer' = [buffer EXCEPT ![c] = parts.rest]
                /\ IF line = <<>>
                   THEN UNCHANGED <<pc, message, calls>>
                   ELSE IF parsed.kind = "error"
                   THEN /\ pc' = [pc EXCEPT ![c] = after_decode_error]
                        /\ UNCHANGED <<message, calls>>
                   ELSE /\ message' = [message EXCEPT ![c] = parsed]
                        /\ calls' = [calls EXCEPT ![c] = Append(@, parsed)]
                        /\ pc' = [pc EXCEPT ![c] = "upsert"]
    /\ UNCHANGED <<now, lock, clients, net, ident, rxtext, rets,
                   log, forced>>
    /\ UNCHANGED http_vars
    /\ UNCHANGED <<srv_vars, rxbytes>>

(***************************************************************************)
(* MonitoringRegistry.upsert, called by a connection's thread.             *)
(***************************************************************************)
\* The two lines before the lock.  message.get raises AttributeError when
\* message is no dict; nothing catches it, the thread ends and
\* `with client_socket` closes the socket.
UpsertEnter(c) ==
    /\ pc[c] = "upsert"
    /\ IF message[c].kind # "object"
       THEN /\ pc' = [pc EXCEPT ![c] = "crashed"]
            /\ UNCHANGED ident
       ELSE LET client_id == upsert_client_id(message[c].obj, address(c).ip)
            IN  /\ ident' = [ident EXCEPT ![c] =
                        [client_id |-> client_id,
                         pc_name |-> upsert_pc_name(message[c].obj, client_id)]]
                /\ pc' = [pc EXCEPT ![c] = "lock"]
    /\ UNCHANGED <<now, lock, clients, net, buffer, message, rxtext,
                   calls, rets, log, forced>>
    /\ UNCHANGED http_vars
    /\ UNCHANGED <<srv_vars, rxbytes>>

\* with self._lock:
Acquire(c) ==
    /\ pc[c] = "lock"
    /\ can_acquire(lock)
    /\ lock' = c
    /\ pc' = [pc EXCEPT ![c] = "get"]
    /\ UNCHANGED <<now, clients, net, buffer, message, ident, rxtext,
                   calls, rets, log, forced>>
    /\ UNCHANGED http_vars
    /\ UNCHANGED <<srv_vars, rxbytes>>

\* client = self._clients.get(client_id), and the creation of a new record.
GetOrCreate(c) ==
    /\ pc[c] = "get"
    /\ IF dict_get(clients, ident[c].client_id) = 0
       THEN \E t \in monotonic(now) :
               /\ now' = t
               /\ clients' = dict_insert(clients,
                      ClientState(ident[c].client_id, ident[c].pc_name,
                                  address(c).ip, address(c).port, t))
       ELSE UNCHANGED <<now, clients>>
    /\ pc' = [pc EXCEPT ![c] = "apply_head"]
    /\ UNCHANGED <<lock, net, buffer, message, ident, rxtext, calls,
                   rets, log, forced>>
    /\ UNCHANGED http_vars
    /\ UNCHANGED <<srv_vars, rxbytes>>

\* client.apply_snapshot(message, ip_address, port), first part.
ApplyHead(c) ==
    /\ pc[c] = "apply_head"
    /\ LET i == dict_get(clients, ident[c].client_id)
       IN  clients' = [clients EXCEPT ![i] =
               apply_snapshot_head(@, message[c].obj, address(c).ip,
                                   address(c).port)]
    /\ pc' = [pc EXCEPT ![c] = "apply_tail"]
    /\ UNCHANGED <<now, lock, net, buffer, message, ident, rxtext,
                   calls, rets, log, forced>>
    /\ UNCHANGED http_vars
    /\ UNCHANGED <<srv_vars, rxbytes>>

\* client.apply_snapshot(message, ip_address, port), second part.
ApplyTail(c) ==
    /\ pc[c] = "apply_tail"
    /\ \E t \in monotonic(now) :
          /\ now' = t
          /\ LET i == dict_get(clients, ident[c].client_id)
             IN  clients' = [clients EXCEPT ![i] =
                     apply_snapshot_tail(@, message[c].obj, t)]
    /\ pc' = [pc EXCEPT ![c] = "unlock"]
    /\ log' = Append(log, [c |-> c, i |-> Len(calls[c])])
    /\ forced' = forced \ {ident[c].client_id}
    /\ UNCHANGED <<lock, net, buffer, message, ident, rxtext, calls,
                   rets>>
    /\ UNCHANGED http_vars
    /\ UNCHANGED <<srv_vars, rxbytes>>

\* return client: the lock is released and _handle_client loops.
Release(c) ==
    /\ pc[c] = "unlock"
    /\ lock' = NoThread
    /\ rets' = [rets EXCEPT ![c] = @ + 1]
    /\ pc' = [pc EXCEPT ![c] = "split"]
    /\ UNCHANGED <<now, clients, net, buffer, message, ident, rxtext,
                   calls, log, forced>>
    /\ UNCHANGED http_vars
    /\ UNCHANGED <<srv_vars, rxbytes>>

(***************************************************************************)
(* serve_forever, in the main thread.                                      *)
(***************************************************************************)
\* ThreadingHTTPServer(...) binds and http_server.serve_forever() starts.
ServeHttp ==
    /\ http_server = "starting"
    /\ http_server' = "serving"
    /\ UNCHANGED <<running, listener, interrupt, now, lock, clients, log,
                   forced>>
    /\ UNCHANGED conn_vars
    /\ UNCHANGED http_vars

\* ThreadingHTTPServer(...) raises OSError before the try block: the error
\* leaves serve_forever and main, and the process ends.  Its daemon threads
\* end with it and nothing of its memory is left.
HttpBindFail ==
    /\ http_server = "starting"
    /\ http_server' = "bind_failed"
    /\ listener' = "killed"
    /\ pc' = [c \in Conns |-> IF pc[c] = "absent" THEN "absent" ELSE "killed"]
    /\ lock' = NoThread
    /\ clients' = <<>>
    /\ net' = [c \in Conns |-> <<>>]
    /\ buffer' = [c \in Conns |-> <<>>]
    /\ message' = [c \in Conns |-> NoMessage]
    /\ ident' = [c \in Conns |-> NoIdent]
    /\ rxbytes' = [c \in Conns |-> <<>>]
    /\ rxtext' = [c \in Conns |-> <<>>]
    /\ calls' = [c \in Conns |-> <<>>]
    /\ rets' = [c \in Conns |-> 0]
    /\ log' = <<>>
    /\ forced' = {}
    /\ UNCHANGED <<running, interrupt, now>>
    /\ UNCHANGED http_vars

\* KeyboardInterrupt in http_server.serve_forever(): the finally block
\* clears _running and closes the HTTP server.
Stop ==
    /\ http_server = "serving"
    /\ interrupt
    /\ running' = FALSE
    /\ http_server' = "closed"
    /\ UNCHANGED <<listener, interrupt, now, lock, clients, log, forced>>
    /\ UNCHANGED conn_vars
    /\ UNCHANGED http_vars

(***************************************************************************)
(* do_GET for /api/clients: MonitoringRegistry.snapshot, then _serve_json. *)
(***************************************************************************)
Request(h) ==
    /\ http_server = "serving"
    /\ hpc[h] = "idle"
    /\ hpc' = [hpc EXCEPT ![h] = "lock"]
    /\ seen_rets' = [seen_rets EXCEPT ![h] = rets]
    /\ UNCHANGED <<now, lock, clients, log, forced, todo, result>>
    /\ UNCHANGED conn_vars
    /\ UNCHANGED srv_vars

\* with self._lock:
AcquireH(h) ==
    /\ hpc[h] = "lock"
    /\ can_acquire(lock)
    /\ lock' = h
    /\ hpc' = [hpc EXCEPT ![h] = "sort"]
    /\ UNCHANGED <<now, clients, log, forced, todo, result,
                   seen_rets>>
    /\ UNCHANGED conn_vars
    /\ UNCHANGED srv_vars

\* The lock left held when an exception leaves the with block.
lock_after_raise_held(holder) == holder

\* An exception leaves `with self._lock`: __exit__ releases the lock.
lock_after_raise(holder) == NoThread

\* sorted(...): the list the comprehension runs over.  An AttributeError
\* leaves the with block, which releases the lock, and snapshot and do_GET.
Sort(h) ==
    /\ hpc[h] = "sort"
    /\ IF can_sort(clients)
       THEN /\ todo' = [todo EXCEPT ![h] = sorted_values(clients)]
            /\ result' = [result EXCEPT ![h] = <<>>]
            /\ hpc' = [hpc EXCEPT ![h] = "payload"]
            /\ UNCHANGED lock
       ELSE /\ lock' = lock_after_raise(h)
            /\ hpc' = [hpc EXCEPT ![h] = "raised"]
            /\ UNCHANGED <<todo, result>>
    /\ UNCHANGED <<now, clients, log, forced, seen_rets>>
    /\ UNCHANGED conn_vars
    /\ UNCHANGED srv_vars

\* client.to_payload(self.offline_after_seconds) for the next client.
Payload(h) ==
    /\ hpc[h] = "payload"
    /\ todo[h] # <<>>
    /\ \E t \in monotonic(now) :
          LET p == to_payload(clients[Head(todo[h])], offline_after_seconds, t)
          IN  /\ now' = t
              /\ result' = [result EXCEPT ![h] = Append(@, p)]
    /\ todo' = [todo EXCEPT ![h] = Tail(@)]
    /\ UNCHANGED <<lock, clients, log, forced, hpc, seen_rets>>
    /\ UNCHANGED conn_vars
    /\ UNCHANGED srv_vars

\* The end of the with block: the lock is released and snapshot returns
\* the finished list, which is no longer snapshot's own once returned.
ReleaseH(h) ==
    /\ hpc[h] = "payload"
    /\ todo[h] = <<>>
    /\ lock' = NoThread
    /\ hpc' = [hpc EXCEPT ![h] = "respond"]
    /\ forced' = forced \cup
          {result[h][j].client_id : j \in
              {j \in 1..Len(result[h]) :
                  /\ result[h][j].seconds_since_last_seen
                        > offline_after_seconds
                  /\ result[h][j].status = Str("offline")}}
    /\ result' = [result EXCEPT ![h] = <<>>]
    /\ seen_rets' = [seen_rets EXCEPT ![h] = [c \in Conns |-> 0]]
    /\ UNCHANGED <<now, clients, log, todo>>
    /\ UNCHANGED conn_vars
    /\ UNCHANGED srv_vars

\* _serve_json(payload): the response is written and the request ends; or
\* the exception that left snapshot ends the request with no response.
Respond(h) ==
    /\ hpc[h] \in {"respond", "raised"}
    /\ hpc' = [hpc EXCEPT ![h] = "idle"]
    /\ result' = [result EXCEPT ![h] = <<>>]
    /\ seen_rets' = [seen_rets EXCEPT ![h] = [c \in Conns |-> 0]]
    /\ UNCHANGED <<now, lock, clients, log, forced, todo>>
    /\ UNCHANGED conn_vars
    /\ UNCHANGED srv_vars

Next ==
    \/ Bind
    \/ BindFail
    \/ ServeHttp
    \/ HttpBindFail
    \/ Stop
    \/ \E c \in Conns :
          \/ Accept(c)
          \/ AcceptFail(c)
          \/ Recv(c)
          \/ SplitLine(c)
          \/ UpsertEnter(c)
          \/ Acquire(c)
          \/ GetOrCreate(c)
          \/ ApplyHead(c)
          \/ ApplyTail(c)
          \/ Release(c)
    \/ \E h \in Https :
          \/ Request(h)
          \/ AcquireH(h)
          \/ Sort(h)
          \/ Payload(h)
          \/ ReleaseH(h)
          \/ Respond(h)

(***************************************************************************)
(* Peer scripts and initial states.                                        *)
(***************************************************************************)
\* One report: a JSON object on a line of its own.
Line(pairs) == <<"{">> \o pairs \o <<"}", NL>>

\* The state after MonitoringServer() and serve_forever's start: the peers
\* in `peers` will connect, with the scripts s1 and s2 still to be delivered,
\* and the operator will interrupt the server or not.
InitWith(s1, s2, peers, stops) ==
    /\ running = TRUE
    /\ interrupt = stops
    /\ listener = "starting"
    /\ http_server = "starting"
    /\ now = 0
    /\ lock = NoThread
    /\ clients = <<>>
    /\ net = [c \in Conns |-> IF c = "c1" THEN s1 ELSE s2]
    /\ pc = [c \in Conns |-> IF c \in peers THEN "pending" ELSE "absent"]
    /\ buffer = [c \in Conns |-> <<>>]
    /\ message = [c \in Conns |-> NoMessage]
    /\ ident = [c \in Conns |-> NoIdent]
    /\ hpc = [h \in Https |-> "idle"]
    /\ todo = [h \in Https |-> <<>>]
    /\ result = [h \in Https |-> <<>>]
    /\ rxbytes = [c \in Conns |-> <<>>]
    /\ rxtext = [c \in Conns |-> <<>>]
    /\ calls = [c \in Conns |-> <<>>]
    /\ rets = [c \in Conns |-> 0]
    /\ log = <<>>
    /\ forced = {}
    /\ seen_rets = [h \in Https |-> [c \in Conns |-> 0]]

\* Registry scenario: one peer sends up to MaxLines reports, a line a chunk.
RegLines ==
    {Line(<<"client_id", "a", "pc_name", "LAB", "status", "busy",
            "current_user", "u", "session_type", "s",
            "gpu_usage_percent", "55", "gpu_memory_used_mb", "7",
            "gpu_name", "g", "timestamp", "t1">>),
     Line(<<"client_id", "a">>),
     Line(<<"client_id", "a", "pc_name", "''", "status", "''",
            "current_user", "null", "gpu_name", "null",
            "timestamp", "null">>),
     Line(<<"pc_name", "LAB">>),
     Line(<<>>),
     Line(<<"client_id", "''", "pc_name", "lab", "status", "offline">>)}

RegScripts == UNION {[1..n -> RegLines] : n \in 0..MaxLines}

\* The operator's interrupt is explored in the runs of at most MaxStopLines
\* reports.
InitRegistry ==
    \E s \in RegScripts : InitWith(s, <<>>, {"c1"}, Len(s) <= MaxStopLines)

SpecRegistry == InitRegistry /\ [][Next]_vars

\* Framing scenario: one peer sends one of these streams, cut into at most
\* MaxChunks recv chunks in every possible way.
FramingStreams ==
    {Line(<<"client_id", "a">>) \o <<"{", "client_id">>,
     <<"not-json", NL>> \o Line(<<"client_id", "b">>),
     <<"[", "]", NL>> \o Line(<<"client_id", "a">>),
     <<SP, NL, SP, "{", "client_id", "a", "}", SP, NL>>,
     <<"7", NL>> \o Line(<<"pc_name", "LAB">>),
     <<"{", "client_id", NL>> \o Line(<<"client_id", "a">>)
         \o <<"{", "client_id", "b", "}">>,
     Line(<<"client_id", "a">>) \o <<"not-json", NL>>
         \o Line(<<"client_id", "b">>),
     Line(<<"client_id", LeadByte, ContByte>>),
     Line(<<"client_id", "a", "status", "busy">>) \o <<SP, NL>>
         \o Line(<<"client_id", "a", "status", "idle">>)}

\* The ways to cut s into at most n non-empty chunks.
RECURSIVE Cuts(_, _)
Cuts(s, n) ==
    IF s = <<>> THEN {<<>>}
    ELSE IF n = 0 THEN {}
    ELSE UNION {{<<SubSeq(s, 1, i)>> \o rest :
                    rest \in Cuts(SubSeq(s, i + 1, Len(s)), n - 1)} :
                i \in 1..Len(s)}

FramingScripts == UNION {Cuts(s, MaxChunks) : s \in FramingStreams}

InitFraming ==
    \E s \in FramingScripts :
        InitWith(s, <<>>, {"c1"}, TRUE)

SpecFraming == InitFraming /\ [][Next]_vars

\* Concurrent scenario: each of two peers sends one report; two of the
\* reports carry the same id.
ConcLines ==
    {Line(<<"client_id", "a", "pc_name", "LAB", "status", "busy",
            "current_user", "u", "gpu_name", "g">>),
     Line(<<"client_id", "a", "pc_name", "lab", "status", "idle",
            "current_user", "v", "gpu_name", "h">>),
     Line(<<"client_id", "b", "pc_name", "b", "status", "idle",
            "current_user", "v", "gpu_name", "h">>)}

InitConcurrent ==
    \E l1 \in ConcLines, l2 \in ConcLines : InitWith(<<l1>>, <<l2>>, Conns, TRUE)

SpecConcurrent == InitConcurrent /\ [][Next]_vars

\* Field scenario: one peer sends up to MaxLines reports, a line a chunk,
\* some of them with a field of an unexpected JSON type: a GPU reading that
\* is a string, a pc_name that is a number.
FieldLines ==
    {Line(<<"client_id", "a", "pc_name", "LAB", "current_user", "u",
            "gpu_usage_percent", "s", "gpu_memory_used_mb", "7",
            "gpu_name", "g">>),
     Line(<<"client_id", "a", "pc_name", "LAB", "gpu_usage_percent", "55",
            "gpu_memory_used_mb", "s">>),
     Line(<<"client_id", "b", "pc_name", "7", "status", "idle">>),
     Line(<<"client_id", "b", "pc_name", "b", "status", "busy">>)}

FieldScripts == UNION {[1..n -> FieldLines] : n \in 1..MaxLines}

InitFields == \E s \in FieldScripts : InitWith(s, <<>>, {"c1"}, TRUE)

SpecFields == InitFields /\ [][Next]_vars

\* Lock scenario: the field scenario's runs of at most two reports, with
\* the threads scheduled fairly.  A thread inside `with self._lock` goes on
\* running, and a thread that waits for the lock gets it if the lock is
\* free again and again.
LockScripts == {s \in FieldScripts : Len(s) <= 2}

InitLock == \E s \in LockScripts : InitWith(s, <<>>, {"c1"}, TRUE)

Fairness ==
    /\ \A c \in Conns :
          /\ SF_vars(Acquire(c))
          /\ WF_vars(GetOrCreate(c))
          /\ WF_vars(ApplyHead(c))
          /\ WF_vars(ApplyTail(c))
          /\ WF_vars(Release(c))
    /\ \A h \in Https :
          /\ SF_vars(AcquireH(h))
          /\ WF_vars(Sort(h))
          /\ WF_vars(Payload(h))
          /\ WF_vars(ReleaseH(h))

SpecLock == InitLock /\ [][Next]_vars /\ Fairness

(***************************************************************************)
(* Properties.                                                             *)
(***************************************************************************)
\* A JSON value that is present and not empty.
NonEmpty(v) == v.t \notin {"missing", "null"} /\ v.v # ""

\* The value a message carries for a key: null when the key is missing.
Carried(m, k) == IF m[k].t = "missing" THEN None ELSE m[k]

\* The stored records with a given id.
RecordsOf(k) == {i \in 1..Len(clients) : clients[i].client_id = k}
RecordOf(k) == clients[CHOOSE i \in RecordsOf(k) : TRUE]

\* The fields of record r that upsert takes from message m alone, pc_name
\* aside, for a report of connection c.
CarriedFields(r, m, c) ==
    /\ r.ip_address = address(c).ip
    /\ r.port = address(c).port
    /\ r.status = (IF NonEmpty(m["status"]) THEN m["status"] ELSE Str("online"))
    /\ r.current_user = Carried(m, "current_user")
    /\ r.session_type = Carried(m, "session_type")
    /\ r.gpu_usage_percent = Carried(m, "gpu_usage_percent")
    /\ r.gpu_memory_used_mb = Carried(m, "gpu_memory_used_mb")
    /\ r.gpu_name = Carried(m, "gpu_name")
    /\ NonEmpty(m["timestamp"]) => (r.last_reported_at = m["timestamp"])
    /\ ~NonEmpty(m["timestamp"]) => (/\ r.last_reported_at.t = "str"
                                     /\ r.last_reported_at.v \notin StrLex)

\* C1 as stated: when upsert has applied a message, the Registry holds
\* exactly one record for its id and every field of the record, pc_name
\* included, is determined by that message alone: a pc_name missing from
\* the message does not keep the earlier name (it is the id, as for a new
\* record).
C1_FullReplace ==
    \A c \in Conns :
        pc[c] = "unlock" =>
            LET m == message[c].obj
                k == ident[c].client_id
            IN  /\ Cardinality(RecordsOf(k)) = 1
                /\ CarriedFields(RecordOf(k), m, c)
                /\ RecordOf(k).pc_name =
                      (IF NonEmpty(m["pc_name"]) THEN m["pc_name"] ELSE Str(k))

\* C1 amended: upsert leaves exactly one record for the id; every field
\* other than pc_name equals the value the applied message carries (status
\* "online" and last_reported_at the server's time when it carries none);
\* pc_name is the message's when that is non-empty and is otherwise left as
\* it was.
C1_OverwriteExceptName ==
    [][\A c \in Conns :
          LET m == message[c].obj
              k == ident[c].client_id
          IN  /\ (pc[c] = "apply_head" /\ pc'[c] = "apply_tail") =>
                    LET old == clients[CHOOSE i \in RecordsOf(k) : TRUE]
                        new == clients'[CHOOSE i \in RecordsOf(k) : TRUE]
                    IN  new.pc_name = (IF NonEmpty(m["pc_name"])
                                       THEN m["pc_name"] ELSE old.pc_name)
              /\ (pc[c] = "apply_tail" /\ pc'[c] = "unlock") =>
                    LET old == clients[CHOOSE i \in RecordsOf(k) : TRUE]
                        new == clients'[CHOOSE i \in RecordsOf(k) : TRUE]
                    IN  /\ Cardinality(RecordsOf(k)) = 1
                        /\ Len(clients') = Len(clients)
                        /\ new.client_id = k
                        /\ new.pc_name = old.pc_name
                        /\ CarriedFields(new, m, c)]_vars

\* A second report for id "a" that carries neither pc_name nor current_user
\* has been applied after one that carried both: the user is gone, the
\* name is kept.
C1_Witness ==
    \E c \in Conns :
        /\ pc[c] = "unlock"
        /\ Len(calls[c]) = 2
        /\ calls[c][1].obj["client_id"] = Str("a")
        /\ calls[c][1].obj["pc_name"] = Str("LAB")
        /\ calls[c][1].obj["current_user"] = Str("u")
        /\ calls[c][2].obj["client_id"] = Str("a")
        /\ calls[c][2].obj["pc_name"] = Missing
        /\ calls[c][2].obj["current_user"] = Missing
        /\ RecordOf("a").current_user = None
        /\ RecordOf("a").pc_name = Str("LAB")

\* C2: every payload of a snapshot has the record's stored status when the
\* elapsed time is at most the threshold (boundary included) and "offline"
\* when it is greater; the elapsed time is the clock reading minus the
\* record's last_seen_monotonic.
C2_ProjectedStatus ==
    \A h \in Https :
        hpc[h] = "payload" =>
            \A j \in 1..Len(result[h]) :
                LET p == result[h][j]
                    r == RecordOf(p.client_id)
                IN  /\ p.seconds_since_last_seen <= offline_after_seconds
                          => p.status = r.status
                    /\ p.seconds_since_last_seen > offline_after_seconds
                          => p.status = Str("offline")
                    /\ j = Len(result[h])
                          => p.seconds_since_last_seen
                                = now - r.last_seen_monotonic

\* One snapshot holds a client exactly at the threshold with its reported
\* status and a client beyond it, reported "busy", shown "offline".
C2_Witness ==
    \E h \in Https :
        /\ hpc[h] = "payload"
        /\ \E j \in 1..Len(result[h]) :
              /\ result[h][j].seconds_since_last_seen = offline_after_seconds
              /\ result[h][j].status = Str("online")
        /\ \E j \in 1..Len(result[h]) :
              /\ result[h][j].seconds_since_last_seen > offline_after_seconds
              /\ RecordOf(result[h][j].client_id).status = Str("busy")
              /\ result[h][j].status = Str("offline")

\* C3: a client that a returned snapshot showed "offline" with its elapsed
\* time beyond the threshold is shown "offline" by every later snapshot,
\* as long as no upsert for its id has been applied since.
C3_OfflineStays ==
    \A h \in Https :
        hpc[h] = "payload" =>
            \A j \in 1..Len(result[h]) :
                result[h][j].client_id \in forced
                    => result[h][j].status = Str("offline")

\* A later snapshot shows "offline" again for a client, reported "busy",
\* that an earlier snapshot had forced offline.
C3_Witness ==
    \E h \in Https :
        /\ hpc[h] = "payload"
        /\ \E j \in 1..Len(result[h]) :
              /\ result[h][j].client_id \in forced
              /\ RecordOf(result[h][j].client_id).status = Str("busy")
              /\ result[h][j].status = Str("offline")

\* The key C4 states: client_id if present and non-empty, else pc_name if
\* present and non-empty, else the source IP address.
ExpectedKey(m, ip) ==
    IF NonEmpty(m["client_id"]) THEN m["client_id"].v
    ELSE IF NonEmpty(m["pc_name"]) THEN m["pc_name"].v
    ELSE ip

\* C4: the identity upsert uses for a message is its client_id if present
\* and non-empty, else its pc_name if present and non-empty, else the
\* source IP address; it is never empty, and the applied message is stored
\* under it.
C4_IdentityFallback ==
    \A c \in Conns :
        /\ pc[c] \in {"lock", "get", "apply_head", "apply_tail", "unlock"} =>
              /\ ident[c].client_id = ExpectedKey(message[c].obj, address(c).ip)
              /\ ident[c].client_id # ""
        /\ pc[c] \in {"apply_head", "apply_tail", "unlock"} =>
              RecordsOf(ExpectedKey(message[c].obj, address(c).ip)) # {}

\* {"pc_name":"LAB"} was stored under "LAB", and then a message with
\* neither field under the source address.
C4_Witness ==
    \E c \in Conns :
        /\ pc[c] = "unlock"
        /\ Len(calls[c]) = 2
        /\ calls[c][1].obj = [EmptyObject EXCEPT !["pc_name"] = Str("LAB")]
        /\ calls[c][2].obj = EmptyObject
        /\ dict_keys(clients) = {"LAB", address(c).ip}

\* The lines of a text that a newline ends, found character by character;
\* what follows the last newline is no line.
RECURSIVE LinesFrom(_, _)
LinesFrom(text, cur) ==
    IF text = <<>> THEN <<>>
    ELSE IF Head(text) = NL THEN <<cur>> \o LinesFrom(Tail(text), <<>>)
    ELSE LinesFrom(Tail(text), Append(cur, Head(text)))

CompleteLines(text) == LinesFrom(text, <<>>)

\* What a line parses to: "blank", "error", "other" or "object".
KindOf(raw) ==
    IF strip(raw) = <<>> THEN "blank" ELSE json_loads(strip(raw)).kind

\* The parsed values of the lines that are neither blank nor invalid.
RECURSIVE ParsedLines(_)
ParsedLines(lines) ==
    IF lines = <<>> THEN <<>>
    ELSE (IF KindOf(Head(lines)) \in {"blank", "error"}
          THEN <<>> ELSE <<json_loads(strip(Head(lines)))>>)
         \o ParsedLines(Tail(lines))

IsPrefix(s, t) == Len(s) <= Len(t) /\ s = SubSeq(t, 1, Len(s))

\* The handler of c is between lines: nothing it received is in progress.
Drained(c) == pc[c] \in {"recv", "closed"}

\* The object on line j of connection c went through upsert: the call
\* was made, it returned, and a record is stored under its id.
Upserted(c, j) ==
    LET v == json_loads(strip(CompleteLines(rxtext[c])[j]))
    IN  /\ \E n \in 1..rets[c] : calls[c][n] = v
        /\ RecordsOf(ExpectedKey(v.obj, address(c).ip)) # {}

\* On connection c, an object line j follows a line i of kind `kind`.
ObjectAfter(c, kind, i, j) ==
    LET lines == CompleteLines(rxtext[c])
    IN  /\ i < j
        /\ KindOf(lines[i]) = kind
        /\ KindOf(lines[j]) = "object"

\* The next step is c's and takes a line of kind `kind` out of its buffer.
TakesLine(c, kind) ==
    /\ pc[c] = "split"
    /\ CompleteLines(buffer[c]) # <<>>
    /\ KindOf(CompleteLines(buffer[c])[1]) = kind
    /\ buffer'[c] # buffer[c]
    /\ pc'[c] # "killed"

\* C5 as stated: a line that is valid JSON but no object is discarded: the
\* handler of its connection does not end on it, and an object line that
\* follows it on the connection is upserted.
C5_NonObjectLineDiscarded ==
    \A c \in Conns :
        /\ pc[c] # "crashed"
        /\ Drained(c) =>
              \A i, j \in 1..Len(CompleteLines(rxtext[c])) :
                  ObjectAfter(c, "other", i, j) => Upserted(c, j)

\* C6: taking a line that is not valid JSON changes no record and does
\* not end the handler, and an object line that follows it on the same
\* connection (with no non-object JSON line before it) is upserted.
C6_InvalidLineSkipped ==
    /\ [](\A c \in Conns :
            Drained(c) =>
                \A i, j \in 1..Len(CompleteLines(rxtext[c])) :
                    (/\ ObjectAfter(c, "error", i, j)
                     /\ \A k \in 1..j :
                           KindOf(CompleteLines(rxtext[c])[k]) # "other")
                    => Upserted(c, j))
    /\ [][\A c \in Conns :
            TakesLine(c, "error") =>
                clients' = clients /\ pc'[c] = "split"]_vars

\* "not-json" and then a report for b were received; b is stored.
C6_Witness ==
    \E c \in Conns :
        /\ Drained(c)
        /\ rxtext[c] = <<"not-json", NL>> \o Line(<<"client_id", "b">>)
        /\ dict_keys(clients) = {"b"}
        /\ rets[c] = 1

\* C7: the values passed to upsert are, in order, those of lines that a
\* newline has ended; what follows the last newline is never passed, so
\* every record is stored under the id of an object on such a line.
C7_OnlyCompleteLines ==
    /\ \A c \in Conns :
          IsPrefix(calls[c], ParsedLines(CompleteLines(rxtext[c])))
    /\ \A i \in 1..Len(clients) :
          \E c \in Conns :
              \E j \in 1..Len(CompleteLines(rxtext[c])) :
                  /\ KindOf(CompleteLines(rxtext[c])[j]) = "object"
                  /\ clients[i].client_id =
                        ExpectedKey(
                            json_loads(strip(CompleteLines(rxtext[c])[j])).obj,
                            address(c).ip)

\* The peer sent a report for a, then an unfinished second line, and
\* closed: the fragment is still in the buffer and only a is stored.
C7_Witness ==
    \E c \in Conns :
        /\ pc[c] = "closed"
        /\ net[c] = <<>>
        /\ rxtext[c] = Line(<<"client_id", "a">>) \o <<"{", "client_id">>
        /\ buffer[c] = <<"{", "client_id">>
        /\ dict_keys(clients) = {"a"}

\* Payload p shows the fields of message m as reported over connection c:
\* the status is m's, or "offline".
PayloadOf(p, m, c) ==
    /\ p.ip_address = address(c).ip
    /\ p.port = address(c).port
    /\ p.pc_name = m["pc_name"]
    /\ p.status \in {m["status"], Str("offline")}
    /\ p.current_user = Carried(m, "current_user")
    /\ p.session_type = Carried(m, "session_type")
    /\ p.gpu_usage_percent = Carried(m, "gpu_usage_percent")
    /\ p.gpu_memory_used_mb = Carried(m, "gpu_memory_used_mb")
    /\ p.gpu_name = Carried(m, "gpu_name")

\* The id and the message of the n-th call of connection c.
CallKey(c, n) == ExpectedKey(calls[c][n].obj, address(c).ip)

\* C8: when two connections' upserts for different ids have both
\* returned, the Registry holds both records, each with the fields of its
\* own message.
C8_NoLostUpdate ==
    \A c1, c2 \in Conns :
        (/\ c1 # c2
         /\ rets[c1] = 1
         /\ rets[c2] = 1
         /\ CallKey(c1, 1) # CallKey(c2, 1))
        => /\ Cardinality(RecordsOf(CallKey(c1, 1))) = 1
           /\ CarriedFields(RecordOf(CallKey(c1, 1)), calls[c1][1].obj, c1)
           /\ RecordOf(CallKey(c1, 1)).pc_name = calls[c1][1].obj["pc_name"]
           /\ Len(clients) = 2

\* Both upserts, for a and for b, have returned and both records are there.
C8_Witness ==
    /\ rets["c1"] = 1
    /\ rets["c2"] = 1
    /\ dict_keys(clients) = {"a", "b"}
    /\ RecordOf("a").ip_address # RecordOf("b").ip_address

\* No upsert is between taking the lock and returning.
NoUpsertInside == \A c \in Conns : pc[c] \notin {"get", "apply_head",
                                                  "apply_tail", "unlock"}

\* C9: upserts do not interleave their writes and a snapshot sees no
\* partial write: whenever no upsert is inside its critical section each
\* record has all the fields of one message, and every payload a snapshot
\* produces has all the fields of one message (never the defaults of a
\* record just created).
C9_AtomicUpsert ==
    /\ NoUpsertInside =>
          \A i \in 1..Len(clients) :
              \E c \in Conns :
                  \E n \in 1..Len(calls[c]) :
                      /\ CallKey(c, n) = clients[i].client_id
                      /\ CarriedFields(clients[i], calls[c][n].obj, c)
                      /\ clients[i].pc_name = calls[c][n].obj["pc_name"]
    /\ \A h \in Https :
          \A j \in 1..Len(result[h]) :
              \E c \in Conns :
                  \E n \in 1..Len(calls[c]) :
                      /\ CallKey(c, n) = result[h][j].client_id
                      /\ PayloadOf(result[h][j], calls[c][n].obj, c)

\* A snapshot has projected the record of a, written by one connection,
\* while the other connection's upsert for a waits for the lock.
C9_Witness ==
    \E h \in Https :
        \E c \in Conns :
            /\ hpc[h] = "payload"
            /\ Len(result[h]) = 1
            /\ result[h][1].client_id = "a"
            /\ pc[c] = "lock"
            /\ ident[c].client_id = "a"
            /\ lock = h

\* The place of the n-th call of connection c in the order of application.
LogPos(c, n) == CHOOSE i \in 1..Len(log) : log[i] = [c |-> c, i |-> n]

\* C10: when a snapshot has built its list, every upsert that had returned
\* before the snapshot was called is reflected: the list has an entry for
\* its id, with the fields of that upsert's message or of one applied
\* after it for the same id.
C10_SnapshotReflectsUpserts ==
    \A h \in Https :
        (hpc[h] = "payload" /\ todo[h] = <<>>) =>
            \A c \in Conns :
                \A n \in 1..seen_rets[h][c] :
                    \E j \in 1..Len(result[h]) :
                        /\ result[h][j].client_id = CallKey(c, n)
                        /\ \E i \in LogPos(c, n)..Len(log) :
                              /\ CallKey(log[i].c, log[i].i) = CallKey(c, n)
                              /\ PayloadOf(result[h][j],
                                           calls[log[i].c][log[i].i].obj,
                                           log[i].c)

\* A snapshot called after both upserts for a had returned shows the
\* fields of the one applied last.
C10_Witness ==
    \E h \in Https :
        /\ hpc[h] = "payload"
        /\ todo[h] = <<>>
        /\ seen_rets[h] = [c \in Conns |-> 1]
        /\ Len(result[h]) = 1
        /\ result[h][1].client_id = "a"
        /\ calls["c1"] # calls["c2"]
        /\ PayloadOf(result[h][1], calls[log[2].c][1].obj, log[2].c)

\* The place of a display name in the order that ignores case.
FoldRank(name) ==
    CHOOSE i \in 1..Len(NameOrder) :
        NameOrder[i] = (IF name.v = "LAB" THEN "lab" ELSE name.v)

\* C11: the list a snapshot builds is in non-decreasing order of the
\* display names with case ignored, whatever the order of insertion.
C11_SortedByName ==
    \A h \in Https :
        \A i, j \in 1..Len(result[h]) :
            i < j => FoldRank(result[h][i].pc_name)
                        <= FoldRank(result[h][j].pc_name)

\* The record named "LAB" was inserted before the record named "b", and
\* the finished list shows "b" first.
C11_Witness ==
    \E h \in Https :
        /\ hpc[h] = "payload"
        /\ todo[h] = <<>>
        /\ Len(clients) = 2
        /\ clients[1].pc_name = Str("LAB")
        /\ clients[2].pc_name = Str("b")
        /\ Len(result[h]) = 2
        /\ result[h][1].pc_name = Str("b")
        /\ result[h][2].pc_name = Str("LAB")

\* A GPU reading that is a number, or absent.
IsNumberOrNull(v) == v.t \in {"num", "null", "missing"}

\* What C12 expects to be kept of a GPU reading: the number, else null.
Degraded(v) == IF v.t = "num" THEN v ELSE None

\* C12 as stated: when upsert has applied a message, each GPU reading of
\* the record is the message's if that is a number and null if it is not,
\* the other fields are the message's, and a snapshot never shows a GPU
\* reading that is not a number.
C12_BadFieldDegraded ==
    /\ \A c \in Conns :
          pc[c] = "unlock" =>
              LET m == message[c].obj
                  r == RecordOf(ident[c].client_id)
              IN  /\ r.gpu_usage_percent = Degraded(m["gpu_usage_percent"])
                  /\ r.gpu_memory_used_mb = Degraded(m["gpu_memory_used_mb"])
                  /\ r.gpu_name = Carried(m, "gpu_name")
                  /\ r.current_user = Carried(m, "current_user")
    /\ \A h \in Https :
          \A j \in 1..Len(result[h]) :
              /\ IsNumberOrNull(result[h][j].gpu_usage_percent)
              /\ IsNumberOrNull(result[h][j].gpu_memory_used_mb)

\* C13: a record's last_seen_monotonic never exceeds the server's clock and
\* never decreases from one state to the next; the step that ends
\* apply_snapshot sets it to the server's clock reading of that step,
\* whatever timestamp the message carries, and a timestamp of the message
\* goes to last_reported_at only.
C13_LastSeenServerSet ==
    /\ [](\A i \in 1..Len(clients) : clients[i].last_seen_monotonic \in 0..now)
    /\ [][/\ \A i \in 1..Len(clients) :
                i <= Len(clients') =>
                    /\ clients'[i].client_id = clients[i].client_id
                    /\ clients'[i].last_seen_monotonic
                          >= clients[i].last_seen_monotonic
          /\ \A c \in Conns :
                (pc[c] = "apply_tail" /\ pc'[c] = "unlock") =>
                    LET i == CHOOSE j \in RecordsOf(ident[c].client_id) : TRUE
                        m == message[c].obj
                    IN  /\ clients'[i].last_seen_monotonic = now'
                        /\ NonEmpty(m["timestamp"]) =>
                              clients'[i].last_reported_at = m["timestamp"]]_vars

\* A second report for a, carrying the timestamp "t1", has been applied
\* at a later clock reading than the first: last_reported_at is "t1" and
\* last_seen_monotonic the server's reading.
C13_Witness ==
    \E c \in Conns :
        /\ pc[c] = "unlock"
        /\ Len(calls[c]) = 2
        /\ calls[c][1].obj["client_id"] = Str("a")
        /\ calls[c][2].obj["timestamp"] = Str("t1")
        /\ RecordOf("a").last_reported_at = Str("t1")
        /\ RecordOf("a").last_seen_monotonic = now
        /\ now > 0

\* C14: as long as the process lives, a step removes no record and moves
\* none (the ids stored stay stored, in their places), and every list a
\* snapshot has finished holds exactly the ids stored, stale ones included.
C14_NeverDeleted ==
    /\ [](\A h \in Https :
            (hpc[h] = "payload" /\ todo[h] = <<>>) =>
                /\ {result[h][j].client_id : j \in 1..Len(result[h])}
                      = dict_keys(clients)
                /\ Len(result[h]) = Len(clients))
    /\ [][http_server' # "bind_failed" =>
            \A i \in 1..Len(clients) :
                /\ i <= Len(clients')
                /\ clients'[i].client_id = clients[i].client_id]_vars

\* After a, an invalid line and b were received and the connection was
\* closed, a finished snapshot lists both clients, shown offline as their
\* reports are older than the threshold.
C14_Witness ==
    \E h \in Https :
        /\ hpc[h] = "payload"
        /\ todo[h] = <<>>
        /\ pc["c1"] = "closed"
        /\ rxtext["c1"] = Line(<<"client_id", "a">>) \o <<"not-json", NL>>
                             \o Line(<<"client_id", "b">>)
        /\ {result[h][j].client_id : j \in 1..Len(result[h])} = {"a", "b"}
        /\ \A j \in 1..Len(result[h]) :
              /\ result[h][j].seconds_since_last_seen > offline_after_seconds
              /\ result[h][j].status = Str("offline")

\* C15 as stated: as long as the server has not been told to stop, the
\* accept loop has not ended, whatever failed before: an accept, a
\* connection, a message.
C15_ListenerNeverEnds == running => listener # "ended"

\* C16 as stated: a bind or listen error is fatal.  The HTTP server does
\* not serve while the ingestion listener has failed to start, and the
\* listener does not run while the HTTP server has failed to start.
C16_BindErrorFatal ==
    /\ listener = "bind_failed" =>
          /\ http_server # "serving"
          /\ \A h \in Https : hpc[h] = "idle"
    /\ http_server = "bind_failed" => listener \notin {"starting", "accepting"}

\* C17 as stated: snapshot never raises, and the list it finishes has one
\* entry per stored record.
C17_SnapshotTotal ==
    \A h \in Https :
        /\ hpc[h] # "raised"
        /\ (hpc[h] = "payload" /\ todo[h] = <<>>) =>
              Len(result[h]) = Len(clients)

\* C18 as stated: the values passed to upsert are those of the lines of
\* the byte stream received so far, decoded as one piece, however the
\* stream was cut into chunks.
C18_ChunkingIndependent ==
    \A c \in Conns :
        IsPrefix(calls[c], ParsedLines(CompleteLines(decode(rxbytes[c]))))

\* The handler of c is not at work on a line: it waits for bytes or has
\* ended.
AtRest(c) == pc[c] \in {"recv", "closed", "crashed"}

\* The objects among a sequence of parsed values.
ObjectsOf(parsed) == SelectSeq(parsed, LAMBDA v : v.kind = "object")

\* The objects on the complete lines c has received, in stream order.
ObjectLines(c) == ObjectsOf(ParsedLines(CompleteLines(rxtext[c])))

\* The last object of c's stream with the id k.
LastFor(c, k) ==
    LET objs == ObjectLines(c)
        n == CHOOSE i \in 1..Len(objs) :
                 /\ ExpectedKey(objs[i].obj, address(c).ip) = k
                 /\ \A j \in (i + 1)..Len(objs) :
                       ExpectedKey(objs[j].obj, address(c).ip) # k
    IN  objs[n].obj

\* With the handler at rest, every object line received has been passed to
\* upsert once, in stream order, each call has returned, and each record
\* has the fields of the last line for its id.
AllLinesUpserted(c) ==
    /\ ObjectsOf(calls[c]) = ObjectLines(c)
    /\ rets[c] = Len(ObjectLines(c))
    /\ \A i \in 1..Len(clients) :
          CarriedFields(clients[i], LastFor(c, clients[i].client_id), c)

\* C19 as stated: on a connection the objects passed to upsert are always
\* the first of the object lines received, once each and in stream order,
\* and with the handler at rest they are all of them, so that each record
\* has the fields of the last line for its id.
C19_EveryLineOnceInOrder ==
    /\ IsPrefix(ObjectsOf(calls["c1"]), ObjectLines("c1"))
    /\ AtRest("c1") => AllLinesUpserted("c1")

\* The same for the streams with no line that is JSON but no object.
C19_UnlessNonObjectLine ==
    (\A j \in 1..Len(CompleteLines(rxtext["c1"])) :
        KindOf(CompleteLines(rxtext["c1"])[j]) # "other")
    => C19_EveryLineOnceInOrder

\* The lock is free, or its holder is a thread inside its critical section.
HolderInside ==
    \/ lock = NoThread
    \/ lock \in Conns /\ pc[lock] \in {"get", "apply_head", "apply_tail",
                                          "unlock"}
    \/ lock \in Https /\ hpc[lock] \in {"sort", "payload"}

\* C20: the lock is held only by a thread inside upsert's or snapshot's
\* critical section, never by one that has left it, by return or by an
\* exception; a held lock is released, and a thread that waits for the
\* lock gets it (unless the process ends first).
C20_LockNeverLeftHeld ==
    /\ []HolderInside
    /\ (lock # NoThread) ~> (lock = NoThread)
    /\ \A c \in Conns : (pc[c] = "lock") ~> (pc[c] \in {"get", "killed"})
    /\ \A h \in Https : (hpc[h] = "lock") ~> (hpc[h] = "sort")

\* An exception has left snapshot's critical section while an upsert was
\* waiting for the lock, and the upsert now holds it.
C20_Witness ==
    \E h \in Https :
        /\ hpc[h] = "raised"
        /\ lock = "c1"
        /\ pc["c1"] = "get"
        /\ rets["c1"] = 1

====
